---- MODULE Spec2Model ----
(***************************************************************************)
(* The sparse-tree mutation engine of git-branchless: Repo::cherry_pick_fast*)
(* and Repo::amend_fast (git-branchless-lib/src/git/repo.rs) over a         *)
(* content-addressed object store.                                          *)
(*                                                                          *)
(* A tree is a mapping from path to an optional (OID, file mode) entry; an  *)
(* object's OID is its content, so two trees have the same OID exactly when *)
(* they are the same mapping.  A blob's content is a pair of hunks and its  *)
(* OID is computed from them (BlobOid), so that the store's 3-way content   *)
(* merge is a real merge: it can produce a blob that neither side holds.    *)
(***************************************************************************)
EXTENDS Integers, Sequences, FiniteSets, TLC

\* Number of paths of the repository.
NumPaths == 2
\* Largest value of one hunk of a blob's content.
MaxHunk == 2
\* Largest number of status entries of one FromWorkingCopy request.
MaxStatusEntries == 1

Paths == 1..NumPaths
HunkVals == 0..MaxHunk
Contents == HunkVals \X HunkVals
Modes == {"Blob", "BlobExecutable"}

\* MaybeZeroOid::Zero, the reserved "no object" OID.
ZeroOid == 0

\* Option<T>.
None == [some |-> FALSE]
Some(v) == [some |-> TRUE, val |-> v]

\* The OID of a blob, computed from its content; every blob OID is non-zero.
BlobOid(c) == 1 + (c[1] * (MaxHunk + 1)) + c[2]
BlobContent(oid) == <<(oid - 1) \div (MaxHunk + 1), (oid - 1) % (MaxHunk + 1)>>
BlobOids == {BlobOid(c) : c \in Contents}

\* A tree or index entry: (OID, file mode).
Entry(oid, mode) == [oid |-> oid, file_mode |-> mode]
TreeEntries == {Entry(o, m) : o \in BlobOids, m \in Modes}
Trees == [Paths -> {None} \cup {Some(e) : e \in TreeEntries}]
EmptyTree == [p \in Paths |-> None]

\* The commits of the repository under test: a root commit, a commit with
\* one parent (the root), and a merge commit of the two.
RootCommit == "root"
ChildCommit == "child"
MergeCommit == "merge"
CommitIds == {RootCommit, ChildCommit, MergeCommit}

VARIABLES
    commits,    \* the repository's commits: id -> [tree, parents]
    index,      \* the staged index: path -> optional entry (OID may be zero)
    workdir,    \* the working copy: path -> the file's state on disk
    refs,       \* the references: name -> the commit the name points at
    odb,        \* the objects written to the store by the operations
    faulty,     \* TRUE when the store's primitives may break their contract
    budget,     \* number of calls still to be made
    last,       \* the record of the last call: arguments, steps and outcome
    calls,      \* the records of the calls made so far, in order
    failure,    \* the step at which the store failed the last call, or "none"
    output,         \* get_status: the bytes `git status` wrote
    status_bytes,   \* get_status: the bytes not yet consumed
    statuses,       \* get_status: the entries decoded so far
    lines,          \* get_status: the lines handed to entry parsing so far
    iterations,     \* get_status: the iterations of the decoding loop so far
    status_result   \* get_status: what the call returned, if it has

repo_vars == <<commits, index, workdir, refs, odb, faulty, budget, last, calls, failure>>
status_vars == <<output, status_bytes, statuses, lines, iterations, status_result>>
vars == <<repo_vars, status_vars>>

----------------------------------------------------------------------------
\* Commit accessors.

get_tree(c) == commits[c].tree
get_parents(c) == commits[c].parents

get_only_parent(c) ==
    IF Len(get_parents(c)) = 1 THEN Some(get_parents(c)[1]) ELSE None

\* Paths that differ (existence, OID or mode) between two optional trees.
get_changed_paths_between_trees(old, new) ==
    LET side(t, p) == IF t.some THEN t.val[p] ELSE None
    IN {p \in Paths : side(old, p) # side(new, p)}

\* Mutant: a merge commit is compared with its first parent.
get_paths_touched_by_commit_first_parent(c) ==
    IF Len(get_parents(c)) = 0
    THEN Some(get_changed_paths_between_trees(None, Some(get_tree(c))))
    ELSE Some(get_changed_paths_between_trees(
                Some(get_tree(get_parents(c)[1])), Some(get_tree(c))))

\* Mutant: only a commit with exactly one parent has touched paths.
get_paths_touched_by_commit_only_parent(c) ==
    IF Len(get_parents(c)) = 1
    THEN Some(get_changed_paths_between_trees(
                Some(get_tree(get_parents(c)[1])), Some(get_tree(c))))
    ELSE None

\* Mutant: only paths added or removed count as touched.
get_paths_touched_by_commit_existence(c) ==
    CASE Len(get_parents(c)) = 0 ->
            Some({p \in Paths : get_tree(c)[p].some})
      [] Len(get_parents(c)) = 1 ->
            Some({p \in Paths :
                    get_tree(get_parents(c)[1])[p].some # get_tree(c)[p].some})
      [] OTHER -> None

get_paths_touched_by_commit(c) ==
    CASE Len(get_parents(c)) = 0 ->
            Some(get_changed_paths_between_trees(None, Some(get_tree(c))))
      [] Len(get_parents(c)) = 1 ->
            Some(get_changed_paths_between_trees(
                    Some(get_tree(get_parents(c)[1])), Some(get_tree(c))))
      [] OTHER -> None

\* A tree holding only the entries of `tree` at `paths`.
dehydrate_tree(tree, paths) ==
    [p \in Paths |-> IF p \in paths THEN tree[p] ELSE None]

\* `base` with every override applied: Some(entry) sets, None removes.
hydrate_tree(base, entries) ==
    [p \in Paths |-> IF p \in DOMAIN entries THEN entries[p] ELSE base[p]]

\* The fixed identity of generated commits.
automated ==
    [name |-> "git-branchless", email |-> "git-branchless@example.com",
     time |-> 0, offset |-> 0]

\* Mutant: every commit created moves the branch.
create_commit_updating_ref(update_ref, author, committer, message, tree, parents) ==
    [update_ref |-> Some("master"), author |-> author, committer |-> committer,
     message |-> message, tree |-> tree, parents |-> parents]

\* create_commit: the commit object written; update_ref names the reference
\* to move, None for none.
create_commit(update_ref, author, committer, message, tree, parents) ==
    [update_ref |-> update_ref, author |-> author, committer |-> committer,
     message |-> message, tree |-> tree, parents |-> parents]

\* The message of a dehydrated commit names the commit it was made from.
dehydrated_message(c) ==
    [text |-> "generated by git-branchless: temporary dehydrated commit",
     original |-> c]

\* Mutant: the dehydrated commit keeps the whole tree of the original.
dehydrate_commit_whole_tree(c, changed_paths, base_on_parent) ==
    LET parents ==
            IF base_on_parent /\ get_only_parent(c).some
            THEN <<create_commit(None, automated, automated,
                                 dehydrated_message(get_only_parent(c).val),
                                 get_tree(get_only_parent(c).val), <<>>)>>
            ELSE <<>>
    IN create_commit(None, automated, automated, dehydrated_message(c),
                     get_tree(c), parents)

\* Mutant: the parent is chained whatever base_on_parent says.
dehydrate_commit_always_chained(c, changed_paths, base_on_parent) ==
    LET parents ==
            IF get_only_parent(c).some
            THEN <<create_commit(None, automated, automated,
                                 dehydrated_message(get_only_parent(c).val),
                                 dehydrate_tree(get_tree(get_only_parent(c).val), changed_paths),
                                 <<>>)>>
            ELSE <<>>
    IN create_commit(None, automated, automated, dehydrated_message(c),
                     dehydrate_tree(get_tree(c), changed_paths), parents)

\* Mutant: the dehydrated commit is created on the branch.
dehydrate_commit_updating_ref(c, changed_paths, base_on_parent) ==
    LET parents ==
            IF base_on_parent /\ get_only_parent(c).some
            THEN <<create_commit(None, automated, automated,
                                 dehydrated_message(get_only_parent(c).val),
                                 dehydrate_tree(get_tree(get_only_parent(c).val), changed_paths),
                                 <<>>)>>
            ELSE <<>>
    IN create_commit(Some("master"), automated, automated, dehydrated_message(c),
                     dehydrate_tree(get_tree(c), changed_paths), parents)

RECURSIVE dehydrate_commit(_, _, _)
dehydrate_commit(c, changed_paths, base_on_parent) ==
    LET dehydrated_tree == dehydrate_tree(get_tree(c), changed_paths)
        parents ==
            IF base_on_parent
            THEN IF get_only_parent(c).some
                 THEN <<dehydrate_commit(get_only_parent(c).val, changed_paths, FALSE)>>
                 ELSE <<>>
            ELSE <<>>
    IN create_commit(None, automated, automated, dehydrated_message(c),
                     dehydrated_tree, parents)

\* Every commit that dehydrate_commit writes to the store.
dehydrated_commits(dc) == {dc} \cup {dc.parents[i] : i \in 1..Len(dc.parents)}

----------------------------------------------------------------------------
\* The store's 3-way merge (libgit2's cherrypick over two commits).  Its
\* result is an index: the merged stage-0 entries, the conflicts, each with
\* its ancestor, our and their side, and the conflict flag.

Side(e, p) ==
    IF e.some THEN Some([path |-> p, oid |-> e.val.oid, file_mode |-> e.val.file_mode])
    ELSE None

\* 3-way merge of one value: the side that changed wins; None when both
\* sides changed it differently.
Merge3(a, o, t) ==
    IF o = t THEN Some(o)
    ELSE IF a = o THEN Some(t)
    ELSE IF a = t THEN Some(o)
    ELSE None

\* Content merge of three blobs, hunk by hunk.
merge_file(a, o, t) ==
    LET ca == BlobContent(a)
        co == BlobContent(o)
        ct == BlobContent(t)
        h1 == Merge3(ca[1], co[1], ct[1])
        h2 == Merge3(ca[2], co[2], ct[2])
    IN IF h1.some /\ h2.some THEN Some(BlobOid(<<h1.val, h2.val>>)) ELSE None

\* The merge of one path: [conflict, entry].  `a`, `o`, `t` are the optional
\* entries of the ancestor, our and their tree.
merge_path(a, o, t) ==
    IF o = t THEN [conflict |-> FALSE, entry |-> o]
    ELSE IF a = o THEN [conflict |-> FALSE, entry |-> t]
    ELSE IF a = t THEN [conflict |-> FALSE, entry |-> o]
    ELSE IF ~a.some \/ ~o.some \/ ~t.some
         THEN [conflict |-> TRUE, entry |-> None]   \* add/add, modify/delete
    ELSE LET oid == IF o.val.oid = t.val.oid THEN Some(o.val.oid)
                    ELSE merge_file(a.val.oid, o.val.oid, t.val.oid)
             mode == Merge3(a.val.file_mode, o.val.file_mode, t.val.file_mode)
         IN IF oid.some /\ mode.some
            THEN [conflict |-> FALSE, entry |-> Some(Entry(oid.val, mode.val))]
            ELSE [conflict |-> TRUE, entry |-> None]

merge_trees(ancestor, ours, theirs) ==
    LET a(p) == IF ancestor.some THEN ancestor.val[p] ELSE None
        m(p) == merge_path(a(p), ours[p], theirs[p])
        conflicts == {[ancestor |-> Side(a(p), p), our |-> Side(ours[p], p),
                       their |-> Side(theirs[p], p)] : p \in {q \in Paths : m(q).conflict}}
    IN [entries |-> [p \in Paths |-> m(p).entry],
        conflicts |-> conflicts,
        has_conflicts |-> conflicts # {}]

\* The results the store may give for the cherry-pick of `patch` onto `ours`
\* (two commit objects): the merge of their trees over the tree of the
\* patch's parent and, when the store may break its contract, the defective
\* results the callers guard against: stage-0 entries holding the zero OID,
\* and a conflict flag with no conflict side to name a path.
cherry_pick_commit(patch, ours, mainline) ==
    LET ancestor == IF Len(patch.parents) = 0 THEN None
                    ELSE Some(patch.parents[1].tree)
        merged == merge_trees(ancestor, ours.tree, patch.tree)
        zeroed(Z) == [merged EXCEPT !.entries =
                         [p \in Paths |-> IF p \in Z THEN Some(Entry(ZeroOid, "Blob"))
                                          ELSE merged.entries[p]]]
        flagged == {[merged EXCEPT !.has_conflicts = TRUE, !.conflicts = {}],
                    [merged EXCEPT !.has_conflicts = TRUE,
                        !.conflicts = {[ancestor |-> None, our |-> None, their |-> None]}]}
    IN {merged} \cup
       (IF faulty THEN {zeroed(Z) : Z \in (SUBSET Paths) \ {{}}} \cup flagged ELSE {})

\* Index::has_conflicts and Index::get_entry.
has_conflicts(idx) == idx.has_conflicts
get_entry(idx, p) == idx.entries[p]

----------------------------------------------------------------------------
\* The record of a call: its arguments, the steps it ran, the objects it
\* wrote, the index the store's merge gave it, and its outcome: "tree"
\* (Ok(Ok(tree)) or Ok(tree)), "conflict" (Ok(Err(MergeConflict))) or
\* "error" (Err).
NoCommit == "none"

CallRecord(op, patch, target, options, steps, written, changed, idx, entries, outcome, tree, conflicting) ==
    [op |-> op, patch |-> patch, target |-> target, options |-> options,
     steps |-> steps, written |-> written, changed_paths |-> changed,
     index |-> idx, entries |-> entries, outcome |-> outcome, tree |-> tree,
     conflicting_paths |-> conflicting]

NoCall ==
    CallRecord("none", NoCommit, NoCommit, None, {}, {}, {}, None, None,
               "none", None, {})

\* Objects as the store holds them.
TreeObject(t) == [kind |-> "tree", object |-> t]
CommitObject(c) == [kind |-> "commit", object |-> c]

\* Mutant: the objects written take the place of the objects held.
write_objects_replacing(store, written) == written

\* The store after objects were written to it: a content-addressed store
\* keeps what it holds and adds the objects it does not hold.
write_objects(store, written) == store \cup written

\* No store failure.
NoFailure == "none"

\* What a reference points at: a commit of the repository, or a commit
\* generated from one.
RefTarget(c, generated) == [commit |-> c, generated |-> generated]

\* The references after the objects `written` were created: a commit
\* created with update_ref = Some(name) moves (or creates) that reference.
update_refs(rs, written) ==
    LET moving(name) ==
            {w \in written : /\ w.kind = "commit"
                             /\ w.object.update_ref = Some(name)}
        moved == {w.object.update_ref.val :
                    w \in {v \in written : v.kind = "commit" /\ v.object.update_ref.some}}
    IN [name \in DOMAIN rs \cup moved |->
            IF name \in moved
            THEN RefTarget((CHOOSE w \in moving(name) : TRUE).object.message.original, TRUE)
            ELSE rs[name]]

\* The objects written by dehydrating a commit: the dehydrated trees and
\* the dehydrated commits.
dehydrated_objects(dc) ==
    {CommitObject(c) : c \in dehydrated_commits(dc)}
        \cup {TreeObject(c.tree) : c \in dehydrated_commits(dc)}

----------------------------------------------------------------------------
\* Repo::cherry_pick_fast.

CherryPickFastOptions == [reuse_parent_tree_if_possible : BOOLEAN]

\* Mutant: the trees are not compared.
reuse_parent_tree_unchecked(patch_commit, target_commit, options) ==
    /\ options.reuse_parent_tree_if_possible
    /\ get_only_parent(patch_commit).some

\* Mutant: the option is read inverted.
reuse_parent_tree_inverted(patch_commit, target_commit, options) ==
    /\ ~options.reuse_parent_tree_if_possible
    /\ get_only_parent(patch_commit).some
    /\ get_tree(get_only_parent(patch_commit).val) = get_tree(target_commit)

\* The elision: the patch is applied to a commit with the tree it was
\* originally based on.
reuse_parent_tree(patch_commit, target_commit, options) ==
    /\ options.reuse_parent_tree_if_possible
    /\ get_only_parent(patch_commit).some
    /\ get_tree(get_only_parent(patch_commit).val) = get_tree(target_commit)

\* Mutant: only the their side of a conflict is collected.
conflicting_paths_their_only(rebased_index) ==
    UNION {IF conflict.their.some THEN {conflict.their.val.path} ELSE {}
           : conflict \in rebased_index.conflicts}

\* Mutant: only the ancestor side of a conflict is collected.
conflicting_paths_ancestor_only(rebased_index) ==
    UNION {IF conflict.ancestor.some THEN {conflict.ancestor.val.path} ELSE {}
           : conflict \in rebased_index.conflicts}

\* The paths of every side of every conflict of the index.
conflicting_paths(rebased_index) ==
    UNION {
        (IF conflict.ancestor.some THEN {conflict.ancestor.val.path} ELSE {})
            \cup (IF conflict.our.some THEN {conflict.our.val.path} ELSE {})
            \cup (IF conflict.their.some THEN {conflict.their.val.path} ELSE {})
        : conflict \in rebased_index.conflicts}

\* Mutant: every changed path is removed.
rebased_entry_removes(rebased_index, changed_path) == None

\* Mutant: an entry with the zero OID is taken as content.
rebased_entry_keeps_zero(rebased_index, changed_path) ==
    LET e == get_entry(rebased_index, changed_path)
    IN IF e.some THEN Some(Entry(e.val.oid, e.val.file_mode)) ELSE None

\* The override of one changed path, read from the merged index.
rebased_entry(rebased_index, changed_path) ==
    LET e == get_entry(rebased_index, changed_path)
    IN IF e.some /\ e.val.oid = ZeroOid THEN None
       ELSE IF e.some THEN Some(Entry(e.val.oid, e.val.file_mode))
       ELSE None

rebased_entries(rebased_index, changed_paths) ==
    [changed_path \in changed_paths |-> rebased_entry(rebased_index, changed_path)]

\* Mutant: the overrides are applied to no base tree.
rebased_tree_oid_no_base(target_commit, entries) ==
    hydrate_tree(EmptyTree, entries)

\* Mutant: the overrides are applied to the tree the last call returned.
rebased_tree_oid_over_last(target_commit, entries) ==
    hydrate_tree(IF last.tree.some THEN last.tree.val ELSE get_tree(target_commit),
                 entries)

\* The hydrated tree: the target's full tree with the overrides applied.
rebased_tree_oid(target_commit, entries) ==
    hydrate_tree(get_tree(target_commit), entries)

\* Mutant: the collected paths decide, not the flag.
is_merge_conflict_by_paths(rebased_index) == conflicting_paths(rebased_index) # {}

\* The branch taken on the merged index: the conflict flag decides.
is_merge_conflict(rebased_index) == has_conflicts(rebased_index)

\* The calls cherry_pick_fast may make of its arguments: one record for
\* each result the store's merge may give.
cherry_pick_fast(patch_commit, target_commit, options) ==
    LET rec(steps, written, changed, idx, entries, outcome, tree, conflicting) ==
            CallRecord("cherry_pick_fast", patch_commit, target_commit, Some(options),
                       steps, written, changed, idx, entries, outcome, tree, conflicting)
        touched == get_paths_touched_by_commit(patch_commit)
    IN IF reuse_parent_tree(patch_commit, target_commit, options)
       THEN {rec({"reuse"}, {}, {}, None, None,
                 "tree", Some(get_tree(patch_commit)), {})}
       ELSE IF ~touched.some
       THEN {rec({"paths"}, {}, {}, None, None, "error", None, {})}
       ELSE
         LET changed_paths == touched.val
             dehydrated_patch_commit == dehydrate_commit(patch_commit, changed_paths, TRUE)
             dehydrated_target_commit == dehydrate_commit(target_commit, changed_paths, FALSE)
             written == dehydrated_objects(dehydrated_patch_commit)
                            \cup dehydrated_objects(dehydrated_target_commit)
             done(rebased_index) ==
                IF is_merge_conflict(rebased_index)
                THEN rec({"paths", "dehydrate", "merge"}, written, changed_paths,
                         Some(rebased_index), None,
                         "conflict", None, conflicting_paths(rebased_index))
                ELSE LET entries == rebased_entries(rebased_index, changed_paths)
                         rebased_tree == rebased_tree_oid(target_commit, entries)
                     IN rec({"paths", "dehydrate", "merge", "hydrate"},
                            written \cup {TreeObject(rebased_tree)}, changed_paths,
                            Some(rebased_index), Some(entries),
                            "tree", Some(rebased_tree), {})
         IN {done(rebased_index) : rebased_index \in
                cherry_pick_commit(dehydrated_patch_commit, dehydrated_target_commit, 0)}

CherryPickFast(patch_commit, target_commit, options) ==
    /\ budget > 0
    /\ \E call \in cherry_pick_fast(patch_commit, target_commit, options) :
            /\ last' = call
            /\ odb' = write_objects(odb, call.written)
            /\ refs' = update_refs(refs, call.written)
    /\ budget' = budget - 1
    /\ calls' = Append(calls, last')
    /\ failure' = NoFailure
    /\ UNCHANGED <<commits, index, workdir, faulty>>
    /\ UNCHANGED status_vars

----------------------------------------------------------------------------
\* Repo::amend_fast.

\* A status entry, with the fields amend_fast reads.
StatusEntry(mode, path, orig_path) ==
    [working_copy_file_mode |-> mode, path |-> path, orig_path |-> orig_path]

\* The status entries of the requests: a path, or a path renamed from the
\* path that follows it.
StatusEntries ==
    {StatusEntry(mode, path, orig_path) :
        mode \in Modes, path \in Paths, orig_path \in {None}} \cup
    {StatusEntry(mode, path, Some((path % NumPaths) + 1)) :
        mode \in Modes, path \in Paths}

\* StatusEntry::paths: the path and, for a rename, the original path.
entry_paths(entry) ==
    IF entry.orig_path.some THEN <<entry.path, entry.orig_path.val>>
    ELSE <<entry.path>>

FromIndex(paths) == [kind |-> "FromIndex", paths |-> paths]
FromWorkingCopy(status_entries) ==
    [kind |-> "FromWorkingCopy", status_entries |-> status_entries]

AmendFastOptions ==
    {FromIndex(paths) : paths \in SUBSET Paths}
        \cup {FromWorkingCopy(status_entries) :
                status_entries \in UNION {[1..n -> StatusEntries] : n \in 0..MaxStatusEntries}}

\* The paths the request names.
requested_paths(opts) ==
    IF opts.kind = "FromIndex" THEN opts.paths
    ELSE UNION {{entry_paths(opts.status_entries[i])[j] :
                    j \in 1..Len(entry_paths(opts.status_entries[i]))} :
                i \in 1..Len(opts.status_entries)}

\* Mutant: a file that does not exist is read as an empty file.
create_blob_from_path_empty_when_missing(path) ==
    CASE workdir[path].state = "file" ->
            [ok |-> TRUE, value |-> Some(BlobOid(workdir[path].content))]
      [] workdir[path].state = "missing" ->
            [ok |-> TRUE, value |-> Some(BlobOid(<<0, 0>>))]
      [] OTHER -> [ok |-> FALSE, value |-> None]

\* Mutant: a file that does not exist is a failure like any other.
create_blob_from_path_not_found_is_error(path) ==
    CASE workdir[path].state = "file" ->
            [ok |-> TRUE, value |-> Some(BlobOid(workdir[path].content))]
      [] OTHER -> [ok |-> FALSE, value |-> None]

\* Repo::create_blob_from_path: Ok(Some(oid)) for a file, Ok(None) for a
\* file that does not exist, Err for any other failure.
create_blob_from_path(path) ==
    CASE workdir[path].state = "file" ->
            [ok |-> TRUE, value |-> Some(BlobOid(workdir[path].content))]
      [] workdir[path].state = "missing" -> [ok |-> TRUE, value |-> None]
      [] OTHER -> [ok |-> FALSE, value |-> None]

\* The (path, entry) pairs read from the working copy, in request order.
RECURSIVE working_copy_pairs(_)
working_copy_pairs(status_entries) ==
    IF status_entries = <<>> THEN <<>>
    ELSE LET entry == Head(status_entries)
             pair(path) ==
                LET blob == create_blob_from_path(path)
                IN [ok |-> blob.ok, path |-> path,
                    value |-> IF blob.value.some
                              THEN Some(Entry(blob.value.val, entry.working_copy_file_mode))
                              ELSE None]
         IN [j \in 1..Len(entry_paths(entry)) |-> pair(entry_paths(entry)[j])]
                \o working_copy_pairs(Tail(status_entries))

\* Mutant: the index source takes the file on disk when there is one.
index_pair_from_working_copy(path) ==
    LET e == index[path]
    IN IF workdir[path].state = "file"
       THEN Some(Some(Entry(BlobOid(workdir[path].content), "Blob")))
       ELSE IF e.some /\ e.val.oid = ZeroOid THEN None
       ELSE IF e.some THEN Some(Some(Entry(e.val.oid, e.val.file_mode)))
       ELSE Some(None)

\* Mutant: a staged entry with the zero OID is taken as content.
index_pair_keeps_zero(path) ==
    LET e == index[path]
    IN IF e.some THEN Some(Some(Entry(e.val.oid, e.val.file_mode))) ELSE Some(None)

\* The entry the index source gives for one requested path: skip for a
\* zero OID, otherwise the override.
index_pair(path) ==
    LET e == index[path]
    IN IF e.some /\ e.val.oid = ZeroOid THEN None
       ELSE IF e.some THEN Some(Some(Entry(e.val.oid, e.val.file_mode)))
       ELSE Some(None)

\* Mutant: a path that could not be read is taken as removed.
new_tree_entries_ignoring_failures(opts) ==
    IF opts.kind = "FromWorkingCopy"
    THEN LET pairs == working_copy_pairs(opts.status_entries)
             last_of(path) ==
                CHOOSE i \in 1..Len(pairs) :
                    /\ pairs[i].path = path
                    /\ \A j \in (i + 1)..Len(pairs) : pairs[j].path # path
         IN [ok |-> TRUE,
             map |-> [path \in {pairs[i].path : i \in 1..Len(pairs)} |->
                        pairs[last_of(path)].value]]
    ELSE [ok |-> TRUE,
          map |-> [path \in {q \in opts.paths : index_pair(q).some} |->
                        index_pair(path).val]]

\* new_tree_entries: [ok, map], the map from the requested paths read to
\* their override; ok is FALSE when reading the working copy failed.
new_tree_entries(opts) ==
    IF opts.kind = "FromWorkingCopy"
    THEN LET pairs == working_copy_pairs(opts.status_entries)
             last_of(path) ==
                CHOOSE i \in 1..Len(pairs) :
                    /\ pairs[i].path = path
                    /\ \A j \in (i + 1)..Len(pairs) : pairs[j].path # path
         IN [ok |-> \A i \in 1..Len(pairs) : pairs[i].ok,
             map |-> [path \in {pairs[i].path : i \in 1..Len(pairs)} |->
                        pairs[last_of(path)].value]]
    ELSE [ok |-> TRUE,
          map |-> [path \in {q \in opts.paths : index_pair(q).some} |->
                        index_pair(path).val]]

\* Mutant: a changed path the request did not name is removed.
amended_entry_requested_only(new_entries, dehydrated_parent_tree, changed_path) ==
    IF changed_path \in DOMAIN new_entries THEN new_entries[changed_path]
    ELSE None

\* Mutant: the parent's entry wins over the request's.
amended_entry_parent_first(new_entries, dehydrated_parent_tree, changed_path) ==
    IF dehydrated_parent_tree[changed_path].some
    THEN dehydrated_parent_tree[changed_path]
    ELSE IF changed_path \in DOMAIN new_entries THEN new_entries[changed_path]
    ELSE None

\* The override of one changed path: the new entry when the request gave
\* one, otherwise the entry of the dehydrated parent tree.
amended_entry(new_entries, dehydrated_parent_tree, changed_path) ==
    IF changed_path \in DOMAIN new_entries THEN new_entries[changed_path]
    ELSE dehydrated_parent_tree[changed_path]

\* The blobs written while reading the working copy: one for each file
\* read before the first failure.
written_blobs(opts) ==
    IF opts.kind = "FromWorkingCopy"
    THEN LET pairs == working_copy_pairs(opts.status_entries)
         IN {[kind |-> "blob", object |-> pairs[i].value.val.oid] :
                i \in {j \in 1..Len(pairs) :
                        /\ pairs[j].value.some
                        /\ \A k \in 1..j : pairs[k].ok}}
    ELSE {}

amend_fast(parent_commit, opts) ==
    LET rec(steps, written, changed, entries, outcome, tree) ==
            CallRecord("amend_fast", parent_commit, NoCommit, Some(opts),
                       steps, written, changed, None, entries, outcome, tree, {})
        touched == get_paths_touched_by_commit(parent_commit)
    IN IF ~touched.some
       THEN rec({"paths"}, {}, {}, None, "error", None)
       ELSE
         LET changed_paths == touched.val \cup requested_paths(opts)
             dehydrated_parent == dehydrate_commit(parent_commit, changed_paths, TRUE)
             dehydrated_parent_tree == dehydrated_parent.tree
             new == new_tree_entries(opts)
             amended_tree_entries ==
                [changed_path \in changed_paths |->
                    amended_entry(new.map, dehydrated_parent_tree, changed_path)]
             amended_tree == hydrate_tree(get_tree(parent_commit), amended_tree_entries)
             written == dehydrated_objects(dehydrated_parent) \cup written_blobs(opts)
         IN IF ~new.ok
            THEN rec({"paths", "dehydrate", "read"}, written, changed_paths,
                     None, "error", None)
            ELSE rec({"paths", "dehydrate", "read", "hydrate"},
                     written \cup {TreeObject(amended_tree)}, changed_paths,
                     Some(amended_tree_entries), "tree", Some(amended_tree))

AmendFast(parent_commit, opts) ==
    /\ budget > 0
    /\ last' = amend_fast(parent_commit, opts)
    /\ odb' = write_objects(odb, last'.written)
    /\ refs' = update_refs(refs, last'.written)
    /\ budget' = budget - 1
    /\ calls' = Append(calls, last')
    /\ failure' = NoFailure
    /\ UNCHANGED <<commits, index, workdir, faulty>>
    /\ UNCHANGED status_vars

----------------------------------------------------------------------------
\* The calls when the store fails them: every `?` of cherry_pick_fast,
\* dehydrate_commit and amend_fast returns the store's error to the caller.

\* The objects dehydrate_commit writes, in the order it writes them: the
\* dehydrated tree, the dehydrated parent (its tree, then the commit) when
\* there is one, and the dehydrated commit.
dehydrated_writes(dc) ==
    <<TreeObject(dc.tree)>>
        \o (IF Len(dc.parents) > 0
            THEN <<TreeObject(dc.parents[1].tree), CommitObject(dc.parents[1])>>
            ELSE <<>>)
        \o <<CommitObject(dc)>>

\* The first n objects of a sequence of writes.
written_before(writes, n) == {writes[i] : i \in 1..n}

\* The steps of cherry_pick_fast the store may fail: reading a tree for
\* the elision, reading the touched paths, dehydrating the two commits,
\* the merge, reading the conflicts, writing the hydrated tree and finding
\* the tree just written.
CherryPickFastFailures ==
    {"get_tree", "get_paths_touched_by_commit", "dehydrate_commit",
     "cherry_pick_commit", "conflicts", "hydrate_tree", "find_tree"}

\* The calls cherry_pick_fast makes of its arguments when the store fails
\* at `step`: none when the call does not reach the step.
cherry_pick_fast_failing(patch_commit, target_commit, options, step) ==
    LET rec(steps, written, changed, idx, entries) ==
            CallRecord("cherry_pick_fast", patch_commit, target_commit, Some(options),
                       steps, written, changed, idx, entries, "error", None, {})
        touched == get_paths_touched_by_commit(patch_commit)
    IN IF step = "get_tree"
       THEN IF options.reuse_parent_tree_if_possible /\ get_only_parent(patch_commit).some
            THEN {rec({"reuse"}, {}, {}, None, None)}
            ELSE {}
       ELSE IF reuse_parent_tree(patch_commit, target_commit, options) THEN {}
       ELSE IF step = "get_paths_touched_by_commit"
       THEN {rec({"paths"}, {}, {}, None, None)}
       ELSE IF ~touched.some THEN {}
       ELSE
         LET changed_paths == touched.val
             dehydrated_patch_commit == dehydrate_commit(patch_commit, changed_paths, TRUE)
             dehydrated_target_commit == dehydrate_commit(target_commit, changed_paths, FALSE)
             writes == dehydrated_writes(dehydrated_patch_commit)
                            \o dehydrated_writes(dehydrated_target_commit)
             written == written_before(writes, Len(writes))
             merged == cherry_pick_commit(dehydrated_patch_commit,
                                          dehydrated_target_commit, 0)
             hydrated(rebased_index) ==
                rebased_tree_oid(target_commit,
                                 rebased_entries(rebased_index, changed_paths))
         IN CASE step = "dehydrate_commit" ->
                    {rec({"paths", "dehydrate"}, written_before(writes, n),
                         changed_paths, None, None) : n \in 0..Len(writes)}
              [] step = "cherry_pick_commit" ->
                    {rec({"paths", "dehydrate", "merge"}, written, changed_paths,
                         None, None)}
              [] step = "conflicts" ->
                    {rec({"paths", "dehydrate", "merge"}, written, changed_paths,
                         Some(rebased_index), None) :
                        rebased_index \in {i \in merged : is_merge_conflict(i)}}
              [] step = "hydrate_tree" ->
                    {rec({"paths", "dehydrate", "merge", "hydrate"}, written,
                         changed_paths, Some(rebased_index),
                         Some(rebased_entries(rebased_index, changed_paths))) :
                        rebased_index \in {i \in merged : ~is_merge_conflict(i)}}
              [] step = "find_tree" ->
                    {rec({"paths", "dehydrate", "merge", "hydrate"},
                         written \cup {TreeObject(hydrated(rebased_index))},
                         changed_paths, Some(rebased_index),
                         Some(rebased_entries(rebased_index, changed_paths))) :
                        rebased_index \in {i \in merged : ~is_merge_conflict(i)}}

CherryPickFastStoreFailure(patch_commit, target_commit, options, step) ==
    /\ budget > 0
    /\ \E call \in cherry_pick_fast_failing(patch_commit, target_commit, options, step) :
            /\ last' = call
            /\ odb' = write_objects(odb, call.written)
            /\ refs' = update_refs(refs, call.written)
    /\ budget' = budget - 1
    /\ calls' = Append(calls, last')
    /\ failure' = step
    /\ UNCHANGED <<commits, index, workdir, faulty>>
    /\ UNCHANGED status_vars

\* The steps of amend_fast the store may fail: reading the touched paths,
\* dehydrating the parent, reading the dehydrated tree, writing a blob,
\* reading the index, writing the amended tree and finding it.
AmendFastFailures ==
    {"get_paths_touched_by_commit", "dehydrate_commit", "get_tree",
     "create_blob_from_path", "get_index", "hydrate_tree", "find_tree"}

\* The calls amend_fast makes of its arguments when the store fails at
\* `step`: none when the call does not reach the step.
amend_fast_failing(parent_commit, opts, step) ==
    LET rec(steps, written, changed, entries) ==
            CallRecord("amend_fast", parent_commit, NoCommit, Some(opts),
                       steps, written, changed, None, entries, "error", None, {})
        touched == get_paths_touched_by_commit(parent_commit)
    IN IF step = "get_paths_touched_by_commit"
       THEN {rec({"paths"}, {}, {}, None)}
       ELSE IF ~touched.some THEN {}
       ELSE
         LET changed_paths == touched.val \cup requested_paths(opts)
             dehydrated_parent == dehydrate_commit(parent_commit, changed_paths, TRUE)
             writes == dehydrated_writes(dehydrated_parent)
             written == written_before(writes, Len(writes))
             pairs == working_copy_pairs(opts.status_entries)
             new == new_tree_entries(opts)
             amended_tree_entries ==
                [changed_path \in changed_paths |->
                    amended_entry(new.map, dehydrated_parent.tree, changed_path)]
             amended_tree == hydrate_tree(get_tree(parent_commit), amended_tree_entries)
         IN CASE step = "dehydrate_commit" ->
                    {rec({"paths", "dehydrate"}, written_before(writes, n),
                         changed_paths, None) : n \in 0..Len(writes)}
              [] step = "get_tree" ->
                    {rec({"paths", "dehydrate"}, written, changed_paths, None)}
              [] step = "create_blob_from_path" ->
                    IF opts.kind # "FromWorkingCopy" THEN {}
                    ELSE {rec({"paths", "dehydrate", "read"},
                              written \cup
                                {[kind |-> "blob", object |-> pairs[i].value.val.oid] :
                                    i \in {k \in 1..(j - 1) : pairs[k].value.some}},
                              changed_paths, None) :
                            j \in {k \in 1..Len(pairs) :
                                    /\ workdir[pairs[k].path].state = "file"
                                    /\ \A i \in 1..(k - 1) : pairs[i].ok}}
              [] step = "get_index" ->
                    IF opts.kind # "FromIndex" THEN {}
                    ELSE {rec({"paths", "dehydrate", "read"}, written, changed_paths, None)}
              [] step = "hydrate_tree" ->
                    IF ~new.ok THEN {}
                    ELSE {rec({"paths", "dehydrate", "read", "hydrate"},
                              written \cup written_blobs(opts), changed_paths,
                              Some(amended_tree_entries))}
              [] step = "find_tree" ->
                    IF ~new.ok THEN {}
                    ELSE {rec({"paths", "dehydrate", "read", "hydrate"},
                              written \cup written_blobs(opts)
                                \cup {TreeObject(amended_tree)},
                              changed_paths, Some(amended_tree_entries))}

AmendFastStoreFailure(parent_commit, opts, step) ==
    /\ budget > 0
    /\ \E call \in amend_fast_failing(parent_commit, opts, step) :
            /\ last' = call
            /\ odb' = write_objects(odb, call.written)
            /\ refs' = update_refs(refs, call.written)
    /\ budget' = budget - 1
    /\ calls' = Append(calls, last')
    /\ failure' = step
    /\ UNCHANGED <<commits, index, workdir, faulty>>
    /\ UNCHANGED status_vars

----------------------------------------------------------------------------
\* The queries and the tree operations on their own.

\* A call of Repo::get_paths_touched_by_commit: Some(paths) or None.
GetPathsTouchedByCommit(c) ==
    /\ budget > 0
    /\ LET touched == get_paths_touched_by_commit(c)
       IN last' = CallRecord("get_paths_touched_by_commit", c, NoCommit, None, {}, {},
                             IF touched.some THEN touched.val ELSE {}, None, None,
                             IF touched.some THEN "Some" ELSE "None", None, {})
    /\ budget' = budget - 1
    /\ calls' = Append(calls, last')
    /\ failure' = NoFailure
    /\ UNCHANGED <<commits, index, workdir, refs, odb, faulty>>
    /\ UNCHANGED status_vars

\* Tree::get_oid_for_path: the OID of the entry at a path, if there is one.
get_oid_for_path(tree, path) ==
    IF tree[path].some THEN Some(tree[path].val.oid) ELSE None

\* Commit::contains_touched_path: None unless the commit has exactly one
\* parent, else whether the OIDs at the path differ (or only one exists).
contains_touched_path(c, path) ==
    IF ~get_only_parent(c).some THEN None
    ELSE LET parent_oid == get_oid_for_path(get_tree(get_only_parent(c).val), path)
             current_oid == get_oid_for_path(get_tree(c), path)
         IN CASE ~parent_oid.some /\ ~current_oid.some -> Some(FALSE)
              [] parent_oid.some /\ current_oid.some ->
                    Some(parent_oid.val # current_oid.val)
              [] OTHER -> Some(TRUE)

ContainsTouchedPath(c, path) ==
    /\ budget > 0
    /\ LET result == contains_touched_path(c, path)
       IN last' = CallRecord("contains_touched_path", c, NoCommit,
                             Some([path |-> path]), {}, {}, {}, None, None,
                             IF ~result.some THEN "None"
                             ELSE IF result.val THEN "Some(true)" ELSE "Some(false)",
                             None, {})
    /\ budget' = budget - 1
    /\ calls' = Append(calls, last')
    /\ failure' = NoFailure
    /\ UNCHANGED <<commits, index, workdir, refs, odb, faulty>>
    /\ UNCHANGED status_vars

\* A call of Repo::dehydrate_commit.
DehydrateCommit(c, changed_paths, base_on_parent) ==
    /\ budget > 0
    /\ LET dehydrated == dehydrate_commit(c, changed_paths, base_on_parent)
       IN /\ last' = CallRecord("dehydrate_commit", c, NoCommit,
                                Some([base_on_parent |-> base_on_parent]),
                                {"dehydrate"}, dehydrated_objects(dehydrated),
                                changed_paths, None, None, "commit",
                                Some(dehydrated.tree), {})
          /\ odb' = write_objects(odb, dehydrated_objects(dehydrated))
          /\ refs' = update_refs(refs, dehydrated_objects(dehydrated))
    /\ budget' = budget - 1
    /\ calls' = Append(calls, last')
    /\ failure' = NoFailure
    /\ UNCHANGED <<commits, index, workdir, faulty>>
    /\ UNCHANGED status_vars

\* A commit's tree dehydrated over a path set and hydrated back with the
\* dehydrated tree's entries as overrides, as amend_fast does for a request
\* that names no path.
HydrateDehydrated(c, changed_paths) ==
    /\ budget > 0
    /\ LET dehydrated_tree == dehydrate_tree(get_tree(c), changed_paths)
           entries == [changed_path \in changed_paths |->
                            amended_entry(<<>>, dehydrated_tree, changed_path)]
           hydrated == hydrate_tree(get_tree(c), entries)
       IN /\ last' = CallRecord("hydrate_tree", c, NoCommit, None,
                                {"dehydrate", "hydrate"},
                                {TreeObject(dehydrated_tree), TreeObject(hydrated)},
                                changed_paths, None, Some(entries), "tree",
                                Some(hydrated), {})
          /\ odb' = write_objects(odb, {TreeObject(dehydrated_tree), TreeObject(hydrated)})
    /\ budget' = budget - 1
    /\ calls' = Append(calls, last')
    /\ failure' = NoFailure
    /\ UNCHANGED <<commits, index, workdir, refs, faulty>>
    /\ UNCHANGED status_vars

----------------------------------------------------------------------------
\* Repo::get_status: decoding the output of
\* `git status --porcelain=v2 --untracked-files=no -z`.

MaxStatusBytes == 5

NulByte == 0
OrdinaryTag == 49
UnmergedTag == 117
RenameTag == 50
OtherByte == 97
\* The bytes of a status stream: NUL, the three tags (which may also stand
\* inside a field) and a byte that is none of them.
Bytes == {NulByte, OrdinaryTag, UnmergedTag, RenameTag, OtherByte}

not_null_terminator(c) == c # NulByte

\* Where take_while stops: the first NUL, or past the end when there is
\* none.
first_null(bytes) ==
    IF \E i \in 1..Len(bytes) : ~not_null_terminator(bytes[i])
    THEN CHOOSE i \in 1..Len(bytes) :
            /\ ~not_null_terminator(bytes[i])
            /\ \A j \in 1..(i - 1) : not_null_terminator(bytes[j])
    ELSE Len(bytes) + 1

\* by_ref().take_while(not_null_terminator): the bytes yielded, and the
\* iterator afterwards (the NUL that stopped it is consumed).
take_while(bytes) == SubSeq(bytes, 1, first_null(bytes) - 1)

\* Mutant: bytes that no NUL terminates are left in the iterator.
after_take_while_unterminated_kept(bytes) ==
    IF first_null(bytes) > Len(bytes) THEN bytes
    ELSE SubSeq(bytes, first_null(bytes) + 1, Len(bytes))

after_take_while(bytes) == SubSeq(bytes, first_null(bytes) + 1, Len(bytes))

\* The arm for '1' and 'u': one field group.
ordinary_line(bytes) ==
    [line |-> take_while(bytes), rest |-> after_take_while(bytes)]

\* Mutant: a rename record is split at its first NUL like any other.
rename_line_one_field(bytes) ==
    [line |-> take_while(bytes), rest |-> after_take_while(bytes)]

\* The arm for '2': one field group, the NUL kept, and a second field.
rename_line(bytes) ==
    LET first == take_while(bytes)
        second == after_take_while(bytes)
    IN [line |-> (first \o <<NulByte>>) \o take_while(second),
        rest |-> after_take_while(second)]

\* Mutant: a record with an unknown tag is read as an ordinary record.
framed_line_lenient(bytes) ==
    CASE Head(bytes) \in {OrdinaryTag, UnmergedTag} -> Some(ordinary_line(bytes))
      [] Head(bytes) = RenameTag -> Some(rename_line(bytes))
      [] OTHER -> Some(ordinary_line(bytes))

\* The match on the peeked byte: the line and the iterator afterwards, or
\* None for "unknown status line prefix".
framed_line(bytes) ==
    CASE Head(bytes) \in {OrdinaryTag, UnmergedTag} -> Some(ordinary_line(bytes))
      [] Head(bytes) = RenameTag -> Some(rename_line(bytes))
      [] OTHER -> None

\* StatusEntry::try_from(&[u8]): the tag, the path after it and, after the
\* NUL of a rename line, the original path; an empty line and a line with
\* an empty path or an empty original path are malformed.
try_into(line) ==
    IF line = <<>> THEN [ok |-> FALSE, entry |-> None]
    ELSE LET fields == Tail(line)
             path == take_while(fields)
             orig_path == IF Head(line) = RenameTag
                          THEN Some(after_take_while(fields)) ELSE None
         IN [ok |-> path # <<>> /\ (orig_path.some => orig_path.val # <<>>),
             entry |-> [tag |-> Head(line), path |-> path, orig_path |-> orig_path]]

\* What get_status returns.
StatusRunning == [kind |-> "running", snapshot |-> None, statuses |-> None]
StatusErr == [kind |-> "Err", snapshot |-> None, statuses |-> None]
StatusOk(entries) ==
    [kind |-> "Ok", snapshot |-> Some(entries), statuses |-> Some(entries)]
StatusIdle == [kind |-> "idle", snapshot |-> None, statuses |-> None]

\* One iteration of the `while let Some(line_prefix) = status_bytes.peek()`
\* loop.  The iteration counter is capped one past the number of bytes of
\* the output.
DecodeStatusEntry ==
    /\ status_result = StatusRunning
    /\ status_bytes # <<>>
    /\ iterations <= Len(output)
    /\ iterations' = iterations + 1
    /\ LET framed == framed_line(status_bytes)
       IN IF ~framed.some
          THEN /\ status_result' = StatusErr
               /\ UNCHANGED <<status_bytes, statuses, lines>>
          ELSE LET parsed == try_into(framed.val.line)
               IN /\ status_bytes' = framed.val.rest
                  /\ lines' = Append(lines, framed.val.line)
                  /\ IF parsed.ok
                     THEN /\ statuses' = Append(statuses, parsed.entry)
                          /\ UNCHANGED status_result
                     ELSE /\ status_result' = StatusErr
                          /\ UNCHANGED statuses
    /\ UNCHANGED <<output, repo_vars>>

\* The loop's exit: the snapshot is made of the entries and both are
\* returned.
CreateSnapshot ==
    /\ status_result = StatusRunning
    /\ status_bytes = <<>>
    /\ status_result' = StatusOk(statuses)
    /\ UNCHANGED <<output, status_bytes, statuses, lines, iterations, repo_vars>>

----------------------------------------------------------------------------
\* The repositories the calls are made in.

Blob(c, mode) == Some(Entry(BlobOid(c), mode))

\* The entries a path may have in the root commit, in the child commit and
\* in the merge commit.  They cover: added, removed, content changed and
\* mode changed by the child; and in the merge commit the same change, a
\* change of the other hunk, and a change of the same hunk and of the mode.
RootEntries == {None, Blob(<<0, 0>>, "Blob")}
ChildEntries == {None, Blob(<<0, 0>>, "Blob"), Blob(<<1, 0>>, "Blob"),
                 Blob(<<0, 0>>, "BlobExecutable")}
MergeEntries == {None, Blob(<<0, 0>>, "Blob"), Blob(<<1, 0>>, "Blob"),
                 Blob(<<0, 1>>, "Blob"), Blob(<<2, 0>>, "BlobExecutable")}

\* The state of a file on disk.
Missing == [state |-> "missing"]
File(c) == [state |-> "file", content |-> c]
Unreadable == [state |-> "unreadable"]

\* The index and the working copy after a clean checkout of a tree.
CheckoutIndex(tree) == tree
CheckoutWorkdir(tree) ==
    [p \in Paths |-> IF tree[p].some THEN File(BlobContent(tree[p].val.oid)) ELSE Missing]

Repository(root, child, merge) ==
    (RootCommit :> [tree |-> root, parents |-> <<>>])
        @@ (ChildCommit :> [tree |-> child, parents |-> <<RootCommit>>])
        @@ (MergeCommit :> [tree |-> merge, parents |-> <<RootCommit, ChildCommit>>])

\* What a path may look like in the index and on disk when the child commit
\* is checked out: untouched; new content staged; edited but not staged;
\* deleted but not staged; removed and staged; unreadable; and, in a
\* defective index, a staged entry holding the zero OID.
WorkingCopyState(kind, e) ==
    LET checked_out == IF e.some THEN File(BlobContent(e.val.oid)) ELSE Missing
    IN CASE kind = "clean" -> [index |-> e, file |-> checked_out]
         [] kind = "staged" ->
                [index |-> Blob(<<1, 1>>, "BlobExecutable"), file |-> File(<<1, 1>>)]
         [] kind = "edited" -> [index |-> e, file |-> File(<<2, 1>>)]
         [] kind = "deleted" -> [index |-> e, file |-> Missing]
         [] kind = "removed" -> [index |-> None, file |-> Missing]
         [] kind = "unreadable" -> [index |-> e, file |-> Unreadable]
         [] kind = "zero" ->
                [index |-> Some(Entry(ZeroOid, "Blob")), file |-> checked_out]

WorkingCopyKinds(defective) ==
    {"clean", "staged", "edited", "deleted", "removed", "unreadable"}
        \cup (IF defective THEN {"zero"} ELSE {})

\* One path of the repository takes every combination of entries; the
\* other paths take one of a few: a file no commit changed, a file only the
\* merge commit has, a file the child removed and the merge commit changed,
\* and a file the child and the merge commit changed in different hunks.
DivergedBackground ==
    {<<Blob(<<0, 0>>, "Blob"), Blob(<<0, 0>>, "Blob"), Blob(<<0, 0>>, "Blob")>>,
     <<None, None, Blob(<<0, 1>>, "Blob")>>,
     <<Blob(<<0, 0>>, "Blob"), None, Blob(<<1, 0>>, "Blob")>>,
     <<Blob(<<0, 0>>, "Blob"), Blob(<<1, 0>>, "Blob"), Blob(<<0, 1>>, "Blob")>>}

\* For the other paths of a changed working copy: an untouched file, a file
\* the child added and that is edited on disk, and a file the child changed
\* whose removal is staged.
DirtyBackground ==
    {<<Blob(<<0, 0>>, "Blob"), Blob(<<0, 0>>, "Blob"), "clean">>,
     <<None, Blob(<<0, 0>>, "Blob"), "edited">>,
     <<Blob(<<0, 0>>, "Blob"), Blob(<<1, 0>>, "Blob"), "removed">>}

\* Repositories with a clean working copy, whose three commits differ.
InitDiverged ==
    \E focus \in Paths :
        \E root \in [Paths -> RootEntries], child \in [Paths -> ChildEntries],
           merge \in [Paths -> MergeEntries] :
            /\ \A p \in Paths \ {focus} :
                    <<root[p], child[p], merge[p]>> \in DivergedBackground
            /\ commits = Repository(root, child, merge)
            /\ index = CheckoutIndex(child)
            /\ workdir = CheckoutWorkdir(child)

\* Repositories with a changed working copy over the child commit.
InitDirty(defective) ==
    \E focus \in Paths :
        \E root \in [Paths -> RootEntries], child \in [Paths -> ChildEntries],
           kind \in [Paths -> WorkingCopyKinds(defective)] :
            /\ \A p \in Paths \ {focus} :
                    <<root[p], child[p], kind[p]>> \in DirtyBackground
            /\ commits = Repository(root, child, child)
            /\ index = [p \in Paths |-> WorkingCopyState(kind[p], child[p]).index]
            /\ workdir = [p \in Paths |-> WorkingCopyState(kind[p], child[p]).file]

InitRepo(defective) ==
    /\ InitDiverged \/ InitDirty(defective)
    /\ refs = [master |-> RefTarget(ChildCommit, FALSE)]
    /\ odb = {}
    /\ budget = 1
    /\ last = NoCall
    /\ calls = <<>>
    /\ failure = NoFailure
    /\ faulty = defective
    /\ output = <<>> /\ status_bytes = <<>> /\ statuses = <<>> /\ lines = <<>>
    /\ iterations = 0
    /\ status_result = StatusIdle

Init == InitRepo(TRUE)

InitContract == InitRepo(FALSE)

Next ==
    \/ \E patch_commit \in CommitIds, target_commit \in CommitIds,
          options \in CherryPickFastOptions :
            CherryPickFast(patch_commit, target_commit, options)
    \/ \E parent_commit \in CommitIds, opts \in AmendFastOptions :
            AmendFast(parent_commit, opts)

Spec == Init /\ [][Next]_vars

SpecContract == InitContract /\ [][Next]_vars

\* The status streams decoded: every stream of up to MaxStatusBytes bytes,
\* alone or after a well-formed rename record or ordinary record.
RenameRecord == <<RenameTag, OtherByte, NulByte, OtherByte, NulByte>>
OrdinaryRecord == <<OrdinaryTag, OtherByte, NulByte>>
StatusStreams ==
    {head \o tail :
        head \in {<<>>, RenameRecord, OrdinaryRecord},
        tail \in UNION {[1..n -> Bytes] : n \in 0..MaxStatusBytes}}

\* get_status has run `git status` in a repository with a clean checkout
\* and is about to decode its output.
InitStatus ==
    /\ LET tree == [p \in Paths |-> Blob(<<0, 0>>, "Blob")]
       IN /\ commits = Repository(tree, tree, tree)
          /\ index = CheckoutIndex(tree)
          /\ workdir = CheckoutWorkdir(tree)
    /\ refs = [master |-> RefTarget(ChildCommit, FALSE)]
    /\ odb = {}
    /\ budget = 0
    /\ last = NoCall
    /\ calls = <<>>
    /\ failure = NoFailure
    /\ faulty = FALSE
    /\ output \in StatusStreams
    /\ status_bytes = output
    /\ statuses = <<>> /\ lines = <<>>
    /\ iterations = 0
    /\ status_result = StatusRunning

NextStatus == DecodeStatusEntry \/ CreateSnapshot

SpecStatus == InitStatus /\ [][NextStatus]_vars

\* get_status is straight-line code around one loop: it keeps running
\* until it returns.
SpecStatusFair == SpecStatus /\ WF_vars(NextStatus)

\* A repository whose third commit is an ordinary commit made on the
\* child commit.
LinearRepository(root, child, tip) ==
    (RootCommit :> [tree |-> root, parents |-> <<>>])
        @@ (ChildCommit :> [tree |-> child, parents |-> <<RootCommit>>])
        @@ (MergeCommit :> [tree |-> tip, parents |-> <<ChildCommit>>])

\* Repositories with a clean working copy and a history of three commits
\* in a line.
InitLinear ==
    \E focus \in Paths :
        \E root \in [Paths -> RootEntries], child \in [Paths -> ChildEntries],
           tip \in [Paths -> MergeEntries] :
            /\ \A p \in Paths \ {focus} :
                    <<root[p], child[p], tip[p]>> \in DivergedBackground
            /\ commits = LinearRepository(root, child, tip)
            /\ index = CheckoutIndex(child)
            /\ workdir = CheckoutWorkdir(child)

\* The queries and the tree operations, one call in each repository.
InitTrees ==
    /\ InitDiverged \/ InitLinear
    /\ refs = [master |-> RefTarget(ChildCommit, FALSE)]
    /\ odb = {}
    /\ budget = 1
    /\ last = NoCall
    /\ calls = <<>>
    /\ failure = NoFailure
    /\ faulty = FALSE
    /\ output = <<>> /\ status_bytes = <<>> /\ statuses = <<>> /\ lines = <<>>
    /\ iterations = 0
    /\ status_result = StatusIdle

NextTrees ==
    \/ \E patch_commit \in CommitIds, target_commit \in CommitIds,
          options \in CherryPickFastOptions :
            CherryPickFast(patch_commit, target_commit, options)
    \/ \E c \in CommitIds : GetPathsTouchedByCommit(c)
    \/ \E c \in CommitIds, path \in Paths : ContainsTouchedPath(c, path)
    \/ \E c \in CommitIds, changed_paths \in SUBSET Paths, base_on_parent \in BOOLEAN :
            DehydrateCommit(c, changed_paths, base_on_parent)
    \/ \E c \in CommitIds, changed_paths \in SUBSET Paths :
            HydrateDehydrated(c, changed_paths)

SpecTrees == InitTrees /\ [][NextTrees]_vars

\* The calls when the store fails them, in every repository whose store
\* keeps its contract otherwise.
NextFailing ==
    \/ \E patch_commit \in CommitIds, target_commit \in CommitIds,
          options \in CherryPickFastOptions, step \in CherryPickFastFailures :
            CherryPickFastStoreFailure(patch_commit, target_commit, options, step)
    \/ \E parent_commit \in CommitIds, opts \in AmendFastOptions,
          step \in AmendFastFailures :
            AmendFastStoreFailure(parent_commit, opts, step)

SpecFailing == InitContract /\ [][NextFailing]_vars

\* Sequences of calls.  The repositories: every path holds the same file
\* in the root commit; the child commit changes the first path; the third
\* commit, a merge commit or a commit on the child, changes a hunk of the
\* first path, the hunk the child changed or the other; the working copy
\* is the child's, clean or with the first path edited.
MaxCalls == 3

InitSeq ==
    /\ \E tip_entry \in {Blob(<<0, 1>>, "Blob"), Blob(<<2, 0>>, "BlobExecutable")},
          kind \in {"clean", "edited"}, linear \in BOOLEAN :
            LET root == [p \in Paths |-> Blob(<<0, 0>>, "Blob")]
                child == [root EXCEPT ![1] = Blob(<<1, 0>>, "Blob")]
                tip == [root EXCEPT ![1] = tip_entry]
                state(p) == WorkingCopyState(IF p = 1 THEN kind ELSE "clean", child[p])
            IN /\ commits = IF linear THEN LinearRepository(root, child, tip)
                             ELSE Repository(root, child, tip)
               /\ index = [p \in Paths |-> state(p).index]
               /\ workdir = [p \in Paths |-> state(p).file]
    /\ refs = [master |-> RefTarget(ChildCommit, FALSE)]
    /\ odb = {}
    /\ budget = MaxCalls
    /\ last = NoCall
    /\ calls = <<>>
    /\ failure = NoFailure
    /\ faulty = FALSE
    /\ output = <<>> /\ status_bytes = <<>> /\ statuses = <<>> /\ lines = <<>>
    /\ iterations = 0
    /\ status_result = StatusIdle

\* The requests of the sequences: the whole index, or one path of the
\* working copy.
SeqAmendFastOptions ==
    {FromIndex(Paths)}
        \cup {FromWorkingCopy(<<StatusEntry("Blob", path, None)>>) : path \in Paths}

\* The path sets of the sequences: the first path, or every path.
SeqChangedPaths == {{1}, Paths}

NextSeq ==
    \/ \E patch_commit \in CommitIds, target_commit \in CommitIds,
          options \in CherryPickFastOptions :
            CherryPickFast(patch_commit, target_commit, options)
    \/ \E parent_commit \in CommitIds, opts \in SeqAmendFastOptions :
            AmendFast(parent_commit, opts)
    \/ \E c \in CommitIds, changed_paths \in SeqChangedPaths, base_on_parent \in BOOLEAN :
            DehydrateCommit(c, changed_paths, base_on_parent)
    \/ \E c \in CommitIds, changed_paths \in SeqChangedPaths :
            HydrateDehydrated(c, changed_paths)

SpecSeq == InitSeq /\ [][NextSeq]_vars

----------------------------------------------------------------------------
\* What the claims speak of.

IsCherryPick == last.op = "cherry_pick_fast"
IsAmend == last.op = "amend_fast"
ReturnedTree == last.outcome = "tree"
ReturnedConflict == last.outcome = "conflict"
ReturnedError == last.outcome = "error"
ParentCount(c) == Len(commits[c].parents)
Reuse == last.options.val.reuse_parent_tree_if_possible

\* The full, non-dehydrated merge of the last cherry-pick: the store's merge
\* of the whole trees, over the tree of the patch's parent (no ancestor for
\* a patch without parent).
FullAncestor ==
    IF ParentCount(last.patch) = 0 THEN None
    ELSE Some(commits[commits[last.patch].parents[1]].tree)
FullMergePath(p) ==
    merge_path(IF FullAncestor.some THEN FullAncestor.val[p] ELSE None,
               commits[last.target].tree[p], commits[last.patch].tree[p])
FullUnmergedPaths == {p \in Paths : FullMergePath(p).conflict}
FullMergedTree == [p \in Paths |-> FullMergePath(p).entry]

\* The paths the patch commit of the last cherry-pick touches.
PatchChangedPaths ==
    {p \in Paths :
        (IF FullAncestor.some THEN FullAncestor.val[p] ELSE None)
            # commits[last.patch].tree[p]}

\* C1: for a patch commit with exactly one parent, whenever
\* cherry_pick_fast returns a tree, the full merge (base = the tree of the
\* patch's parent, ours = the target's tree, theirs = the patch's tree)
\* leaves no path unmerged and its tree has, at every path, the same OID
\* and mode as the returned tree.  Checked for a store whose merge keeps its
\* contract.
C1_FastTreeEqualsFullMerge ==
    (IsCherryPick /\ ParentCount(last.patch) = 1 /\ ReturnedTree)
        => /\ FullUnmergedPaths = {}
           /\ \A p \in Paths : last.tree.val[p] = FullMergedTree[p]

\* A cherry-pick through the merge whose tree holds, at a path the target
\* changed too, a blob merged from both sides, and elsewhere an entry of the
\* target that the patch does not have.
C1_Witness ==
    /\ IsCherryPick /\ ReturnedTree /\ ParentCount(last.patch) = 1
    /\ "hydrate" \in last.steps
    /\ \E p \in Paths :
            /\ last.tree.val[p].some
            /\ last.tree.val[p] # commits[last.patch].tree[p]
            /\ last.tree.val[p] # commits[last.target].tree[p]
    /\ \E p \in Paths \ last.changed_paths :
            commits[last.target].tree[p] # commits[last.patch].tree[p]

\* C2: cherry_pick_fast returns MergeConflict exactly when the full merge
\* of the same two commits leaves unmerged paths, and then its
\* conflicting_paths are the full merge's unmerged paths.  Checked for a
\* store whose merge keeps its contract, for every patch commit the
\* operation accepts.
C2_ConflictEqualsFullMerge ==
    (IsCherryPick /\ ~ReturnedError)
        => /\ ReturnedConflict <=> FullUnmergedPaths # {}
           /\ ReturnedConflict => last.conflicting_paths = FullUnmergedPaths

\* A conflicting cherry-pick whose target also differs from the patch at a
\* path the patch did not touch: the full merge sees that path, the
\* dehydrated merge does not.
C2_Witness ==
    /\ IsCherryPick /\ ReturnedConflict /\ ParentCount(last.patch) = 1
    /\ last.conflicting_paths # {}
    /\ \E p \in Paths \ last.changed_paths :
            commits[last.target].tree[p] # commits[last.patch].tree[p]

\* C3: with reuse_parent_tree_if_possible set, a patch commit with exactly
\* one parent whose tree is the target's tree is answered with the patch
\* commit's own tree, and nothing else is done: no changed paths computed,
\* no object written, no merge run.
C3_Elision ==
    (/\ IsCherryPick /\ Reuse /\ ParentCount(last.patch) = 1
     /\ commits[commits[last.patch].parents[1]].tree = commits[last.target].tree)
        => /\ ReturnedTree
           /\ last.tree = Some(commits[last.patch].tree)
           /\ last.steps = {"reuse"}
           /\ last.written = {}
           /\ last.index = None

\* An elided cherry-pick of a patch that changes something, onto a commit
\* that is not the patch's parent but has its tree.
C3_Witness ==
    /\ IsCherryPick /\ Reuse /\ ParentCount(last.patch) = 1
    /\ last.target # commits[last.patch].parents[1]
    /\ commits[commits[last.patch].parents[1]].tree = commits[last.target].tree
    /\ commits[last.patch].tree # commits[last.target].tree
    /\ ReturnedTree

\* C4: when cherry_pick_fast returns a tree through the merge, every path
\* the patch commit does not touch has in that tree the entry, or the
\* absence, it has in the target commit's tree.
C4_UntouchedPathsKeepTarget ==
    (IsCherryPick /\ ReturnedTree /\ "merge" \in last.steps)
        => \A p \in Paths \ PatchChangedPaths :
                last.tree.val[p] = commits[last.target].tree[p]

\* A merged cherry-pick with an untouched path that the target has and the
\* patch has not, and a touched path that changed in the result.
C4_Witness ==
    /\ IsCherryPick /\ ReturnedTree /\ "merge" \in last.steps
    /\ \E p \in Paths \ PatchChangedPaths :
            /\ commits[last.target].tree[p].some
            /\ ~commits[last.patch].tree[p].some
    /\ \E p \in PatchChangedPaths :
            last.tree.val[p] # commits[last.target].tree[p]

\* C5: a patch commit with more than one parent makes cherry_pick_fast fail
\* with a hard error, whatever reuse_parent_tree_if_possible is, before any
\* object is written and before any merge is run.
C5_MultiParentRejected ==
    (IsCherryPick /\ ParentCount(last.patch) > 1)
        => /\ ReturnedError
           /\ last.tree = None
           /\ last.written = {}
           /\ last.steps \cap {"dehydrate", "merge", "hydrate"} = {}

\* A rejected merge-commit patch with the elision requested, onto a commit
\* holding the tree of the patch's first parent.
C5_Witness ==
    /\ IsCherryPick /\ ParentCount(last.patch) > 1 /\ Reuse
    /\ commits[commits[last.patch].parents[1]].tree = commits[last.target].tree
    /\ ReturnedError

\* C6 as claimed: a patch commit with no parent makes cherry_pick_fast fail
\* with an explicit error: no tree, no MergeConflict, no merge run.
C6_ZeroParentRejected ==
    (IsCherryPick /\ ParentCount(last.patch) = 0)
        => /\ ReturnedError
           /\ "merge" \notin last.steps

\* C6, amended: a patch commit with no parent is not rejected.  Every path
\* of its tree counts as changed, the patch and the target are dehydrated
\* over these paths, the dehydrated patch has no parent, the merge is run
\* without ancestor, and the call returns a tree or a MergeConflict.
C6_ZeroParentMerged ==
    (IsCherryPick /\ ParentCount(last.patch) = 0)
        => /\ ReturnedTree \/ ReturnedConflict
           /\ {"paths", "dehydrate", "merge"} \subseteq last.steps
           /\ last.changed_paths = {p \in Paths : commits[last.patch].tree[p].some}
           /\ \E w \in last.written :
                /\ w.kind = "commit"
                /\ w.object.message.original = last.patch
                /\ w.object.parents = <<>>
                /\ w.object.tree = commits[last.patch].tree

\* A root-commit patch with a file, picked onto another commit that has
\* nothing at that path: a tree is returned.
C6_Witness ==
    /\ IsCherryPick /\ ParentCount(last.patch) = 0
    /\ last.changed_paths # {}
    /\ last.target # last.patch
    /\ ReturnedTree
    /\ \E p \in last.changed_paths : ~commits[last.target].tree[p].some

\* The paths named by the sides of the conflicts of the merged index of the
\* last call.
SidePaths ==
    {p \in Paths : \E c \in last.index.val.conflicts :
        \/ c.ancestor.some /\ c.ancestor.val.path = p
        \/ c.our.some /\ c.our.val.path = p
        \/ c.their.some /\ c.their.val.path = p}

\* C7: when the merged index reports conflicts, cherry_pick_fast returns
\* MergeConflict, neither a tree nor an error, and its conflicting_paths
\* are exactly the paths of the ancestor, our and their sides that the
\* conflicts of the index have.
C7_ConflictPathsAreAllSides ==
    (IsCherryPick /\ last.index.some /\ last.index.val.has_conflicts)
        => /\ ReturnedConflict
           /\ last.tree = None
           /\ last.conflicting_paths = SidePaths

\* A MergeConflict from an index with a conflict that has no ancestor side
\* and one that has no their side.
C7_Witness ==
    /\ IsCherryPick /\ ReturnedConflict
    /\ \E c \in last.index.val.conflicts : ~c.ancestor.some /\ c.our.some
    /\ \E c \in last.index.val.conflicts : ~c.their.some /\ c.ancestor.some
    /\ Cardinality(last.conflicting_paths) = 2

\* C8: a merged index with the conflict flag set never yields a tree; when
\* its conflicts name no path, cherry_pick_fast still returns MergeConflict,
\* with no path.
C8_FlagWithoutPathsIsConflict ==
    (IsCherryPick /\ last.index.some /\ last.index.val.has_conflicts)
        => /\ ~ReturnedTree
           /\ SidePaths = {} => (ReturnedConflict /\ last.conflicting_paths = {})

\* A MergeConflict without paths, from an index whose flag is set and whose
\* only conflict has no side, for a patch that changed something.
C8_Witness ==
    /\ IsCherryPick /\ last.index.some /\ last.index.val.has_conflicts
    /\ last.index.val.conflicts # {}
    /\ SidePaths = {}
    /\ last.changed_paths # {}
    /\ ReturnedConflict /\ last.conflicting_paths = {}

\* C9: on a merge without conflicts the override map has one key for each
\* path the patch touches and no other; a merged entry with a non-zero OID
\* is an upsert of its (OID, mode), a missing entry a removal, an entry with
\* the zero OID a removal; and the returned tree is the target's full tree
\* with the map applied.
C9_OverrideMap ==
    (IsCherryPick /\ last.index.some /\ ~last.index.val.has_conflicts)
        => /\ ReturnedTree
           /\ DOMAIN last.entries.val = PatchChangedPaths
           /\ \A p \in PatchChangedPaths :
                LET merged == last.index.val.entries[p]
                    override == last.entries.val[p]
                IN /\ (merged.some /\ merged.val.oid # ZeroOid)
                        => /\ override.some
                           /\ override.val.oid = merged.val.oid
                           /\ override.val.file_mode = merged.val.file_mode
                   /\ ~merged.some => override = None
                   /\ (merged.some /\ merged.val.oid = ZeroOid) => override = None
           /\ \A p \in Paths :
                last.tree.val[p] = IF p \in PatchChangedPaths THEN last.entries.val[p]
                                   ELSE commits[last.target].tree[p]

\* A merge without conflicts whose index has, at touched paths, an entry
\* with a non-zero OID and an entry with the zero OID where the target has a
\* file.
C9_Witness ==
    /\ IsCherryPick /\ ReturnedTree /\ last.index.some
    /\ \E p \in PatchChangedPaths :
            last.index.val.entries[p].some /\ last.index.val.entries[p].val.oid # ZeroOid
    /\ \E p \in PatchChangedPaths :
            /\ last.index.val.entries[p].some
            /\ last.index.val.entries[p].val.oid = ZeroOid
            /\ commits[last.target].tree[p].some
            /\ ~last.tree.val[p].some

\* C10: no tree written by cherry_pick_fast or amend_fast has an entry with
\* the zero OID, and no override carries it: a zero-OID entry read from the
\* merged index or from the staged index is dropped before hydration.
C10_NoZeroOidWritten ==
    /\ \A w \in odb :
            w.kind = "tree" => \A p \in Paths :
                w.object[p].some => w.object[p].val.oid # ZeroOid
    /\ ReturnedTree => \A p \in Paths :
            last.tree.val[p].some => last.tree.val[p].val.oid # ZeroOid
    /\ last.entries.some => \A p \in DOMAIN last.entries.val :
            last.entries.val[p].some => last.entries.val[p].val.oid # ZeroOid

\* A tree written by amend_fast for a request that names a path whose
\* staged entry holds the zero OID.
C10_Witness ==
    /\ IsAmend /\ ReturnedTree
    /\ last.options.val.kind = "FromIndex"
    /\ \E p \in last.options.val.paths :
            index[p].some /\ index[p].val.oid = ZeroOid
    /\ [kind |-> "tree", object |-> last.tree.val] \in odb

----------------------------------------------------------------------------
\* What the claims about amend_fast speak of.

AmendOpts == last.options.val
AmendParent == last.patch
AmendParentTree == get_tree(last.patch)
AmendRequested == requested_paths(last.options.val)
AmendFromIndex == IsAmend /\ last.options.val.kind = "FromIndex"
AmendFromWorkingCopy == IsAmend /\ last.options.val.kind = "FromWorkingCopy"
\* The file a clean checkout of the parent commit would have at a path.
CheckedOut(p) == CheckoutWorkdir(AmendParentTree)[p]

\* C11: the tree amend_fast returns differs from parent_commit's tree only
\* at the paths the request names (the FromIndex paths, or path and
\* orig_path of the status entries); every other path keeps the parent's
\* entry or absence, also a path parent_commit touched and a path that is
\* changed in the index or on disk but was not requested.
C11_OnlyRequestedPathsDiffer ==
    (IsAmend /\ ReturnedTree) =>
        \A p \in Paths \ AmendRequested : last.tree.val[p] = AmendParentTree[p]

\* A tree returned for a request that changed a path, while another path,
\* touched by the parent commit and changed in the index or on disk, was
\* not requested.
C11_Witness ==
    /\ IsAmend /\ ReturnedTree
    /\ \E q \in AmendRequested : last.tree.val[q] # AmendParentTree[q]
    /\ \E p \in Paths \ AmendRequested :
            /\ p \in last.changed_paths
            /\ index[p] # AmendParentTree[p] \/ workdir[p] # CheckedOut(p)

\* The tree the staged index and the parent's tree determine for a
\* FromIndex request, with no look at the working copy.
IndexAmendedTree ==
    [p \in Paths |->
        IF p \in AmendOpts.paths /\ ~(index[p].some /\ index[p].val.oid = ZeroOid)
        THEN index[p] ELSE AmendParentTree[p]]

\* C12: with FromIndex each requested path gets the (OID, mode) of its
\* staged index entry when that entry's OID is not zero, and is removed
\* when the index has no entry for it; the result is determined by the
\* index and the parent's tree, never by the files on disk.
C12_FromIndexTakesStagedEntries ==
    (AmendFromIndex /\ ReturnedTree) =>
        /\ \A p \in AmendOpts.paths :
                /\ (index[p].some /\ index[p].val.oid # ZeroOid) =>
                        last.tree.val[p] = Some(Entry(index[p].val.oid, index[p].val.file_mode))
                /\ ~index[p].some => last.tree.val[p] = None
        /\ last.tree.val = IndexAmendedTree

\* A FromIndex amend that gave one requested path its staged entry, which
\* differs from the parent's, while the file on disk holds other content,
\* and removed another requested path that has no staged entry.
C12_Witness ==
    /\ AmendFromIndex /\ ReturnedTree
    /\ \E p \in AmendOpts.paths :
            /\ index[p].some /\ index[p].val.oid # ZeroOid
            /\ index[p] # AmendParentTree[p]
            /\ last.tree.val[p] = index[p]
    /\ \E p \in AmendOpts.paths :
            /\ index[p].some /\ index[p].val.oid # ZeroOid
            /\ workdir[p] # File(BlobContent(index[p].val.oid))
    /\ \E p \in AmendOpts.paths :
            ~index[p].some /\ AmendParentTree[p].some /\ last.tree.val[p] = None

\* C13: with FromIndex a requested path whose staged index entry holds the
\* zero OID is treated as absent: the amended tree has no entry at that
\* path, as when the index has no entry for the path.
C13_ZeroOidIndexEntryRemoved ==
    (AmendFromIndex /\ ReturnedTree) =>
        \A p \in AmendOpts.paths :
            (index[p].some /\ index[p].val.oid = ZeroOid) => last.tree.val[p] = None

\* A FromIndex amend of a path whose staged entry holds the zero OID and
\* that parent_commit has: the returned tree keeps the parent's entry.
C13_Witness ==
    /\ AmendFromIndex /\ ReturnedTree
    /\ \E p \in AmendOpts.paths :
            /\ index[p].some /\ index[p].val.oid = ZeroOid
            /\ AmendParentTree[p].some
            /\ last.tree.val[p] = AmendParentTree[p]

\* The status entries of a FromWorkingCopy request that name a path.
EntriesNaming(p) ==
    {i \in 1..Len(AmendOpts.status_entries) :
        \E j \in 1..Len(entry_paths(AmendOpts.status_entries[i])) :
            entry_paths(AmendOpts.status_entries[i])[j] = p}

\* C14: with FromWorkingCopy every path named by a status entry, path and
\* orig_path alike, is handled: a path whose file exists gets the blob of
\* the file's bytes on disk with the working_copy_file_mode of a status
\* entry naming it, and a path whose file does not exist is removed.
C14_WorkingCopyPathsHandled ==
    (AmendFromWorkingCopy /\ ReturnedTree) =>
        \A p \in AmendRequested :
            /\ workdir[p].state = "file" =>
                    \E i \in EntriesNaming(p) :
                        last.tree.val[p] =
                            Some(Entry(BlobOid(workdir[p].content),
                                       AmendOpts.status_entries[i].working_copy_file_mode))
            /\ workdir[p].state = "missing" => last.tree.val[p] = None

\* An amend from a rename entry: the new path's file exists and its blob,
\* which the parent did not have, is in the tree, and the original path,
\* which the parent had, is gone from disk and from the tree.
C14_Witness ==
    /\ AmendFromWorkingCopy /\ ReturnedTree
    /\ \E i \in 1..Len(AmendOpts.status_entries) :
        LET entry == AmendOpts.status_entries[i]
        IN /\ entry.orig_path.some
           /\ workdir[entry.path].state = "file"
           /\ last.tree.val[entry.path] # AmendParentTree[entry.path]
           /\ last.tree.val[entry.path].some
           /\ workdir[entry.orig_path.val].state = "missing"
           /\ AmendParentTree[entry.orig_path.val].some
           /\ last.tree.val[entry.orig_path.val] = None

C16_ReadFailureIsHardError ==
    (/\ AmendFromWorkingCopy
     /\ \E p \in AmendRequested : workdir[p].state = "unreadable")
        => /\ ReturnedError
           /\ last.tree = None
           /\ last.entries = None
           /\ "hydrate" \notin last.steps
           /\ \A w \in last.written :
                w.kind = "tree" =>
                    \E c \in last.written : c.kind = "commit" /\ c.object.tree = w.object

\* A request naming two paths, one read into a blob and one unreadable,
\* against a parent with at most one parent: the call got as far as
\* reading and returned an error.
C16_Witness ==
    /\ AmendFromWorkingCopy /\ ReturnedError
    /\ "read" \in last.steps
    /\ \E p \in AmendRequested : workdir[p].state = "unreadable"
    /\ \E p \in AmendRequested : workdir[p].state = "file"
    /\ \E w \in last.written : w.kind = "blob"

----------------------------------------------------------------------------
\* References and generated commits.

\* The commits a call dehydrates: patch, its sole parent and the target for
\* cherry_pick_fast; the parent commit and its sole parent for amend_fast.
DehydratedOriginals ==
    LET chained(c) ==
            {c} \cup (IF get_only_parent(c).some THEN {get_only_parent(c).val} ELSE {})
    IN IF "dehydrate" \notin last.steps THEN {}
       ELSE IF IsCherryPick THEN chained(last.patch) \cup {last.target}
       ELSE chained(last.patch)

\* Every commit in the store is a dehydrated commit written with no
\* reference to update, authored and committed by the fixed git-branchless
\* identity at time 0, with a message naming the commit it was made from,
\* whose tree it holds over the call's changed paths.
GeneratedCommitsAreAnonymous ==
    /\ \A w \in odb :
        w.kind = "commit" =>
            /\ w.object.update_ref = None
            /\ w.object.author = automated /\ w.object.committer = automated
            /\ w.object.author.name = "git-branchless" /\ w.object.author.time = 0
            /\ w.object.message.original \in CommitIds
            /\ \E paths \in SUBSET Paths :
                w.object.tree = dehydrate_tree(get_tree(w.object.message.original), paths)
    /\ {w.object.message.original : w \in {v \in last.written : v.kind = "commit"}}
            = DehydratedOriginals

\* C20: in every outcome (tree, conflict, error) cherry_pick_fast,
\* amend_fast and the dehydrate_commit calls they make create or update no
\* reference: the references and their targets stay as they were; and the
\* dehydrated commits are written with no reference update, under the
\* fixed git-branchless identity with timestamp 0 and a message naming the
\* original commit.
C20_NoReferenceTouched ==
    [](GeneratedCommitsAreAnonymous) /\ [][refs' = refs]_vars

\* A cherry-pick that ended in a conflict has written the dehydrated
\* commits of its patch and of its target to the store, and the branch
\* still points at the commit it pointed at.
C20_Witness ==
    /\ IsCherryPick /\ ReturnedConflict
    /\ \E w \in odb : w.kind = "commit" /\ w.object.message.original = last.patch
    /\ \E w \in odb : w.kind = "commit" /\ w.object.message.original = last.target
    /\ refs = [master |-> RefTarget(ChildCommit, FALSE)]

----------------------------------------------------------------------------
\* What the claims about get_status speak of.

StatusTags == {OrdinaryTag, UnmergedTag, RenameTag}
StatusDecoding == status_result.kind # "idle"
\* The bytes of the output consumed so far.
Consumed == SubSeq(output, 1, Len(output) - Len(status_bytes))
NulCount(bytes) == Cardinality({i \in 1..Len(bytes) : bytes[i] = NulByte})
Nuls(k) == [j \in 1..k |-> NulByte]
\* The lines, each followed by a NUL.
RECURSIVE Terminated(_)
Terminated(ls) ==
    IF ls = <<>> THEN <<>> ELSE (Head(ls) \o <<NulByte>>) \o Terminated(Tail(ls))
\* The bytes of a line before its NUL, without the tag, and after its NUL.
FieldGroup(line) == SubSeq(line, 2, first_null(line) - 1)
OriginalPath(line) == SubSeq(line, first_null(line) + 1, Len(line))

\* C18: the decoder frames records by their leading tag.  A line handed to
\* entry parsing starts with a tag; a '1' or 'u' line is one field group
\* and holds no NUL, a '2' line is two, with exactly one NUL between
\* them; the lines, each with its terminating NUL, are the bytes consumed
\* (only a stream that ends inside a record lacks terminators); and the
\* entries are those of the lines, one per line, in order.
C18_RecordsFramedByTag ==
    StatusDecoding =>
        /\ \A i \in 1..Len(lines) :
            /\ lines[i][1] \in StatusTags
            /\ lines[i][1] \in {OrdinaryTag, UnmergedTag} => NulCount(lines[i]) = 0
            /\ lines[i][1] = RenameTag => NulCount(lines[i]) = 1
        /\ \E k \in 0..2 :
            /\ Terminated(lines) = Consumed \o Nuls(k)
            /\ k > 0 => status_bytes = <<>>
        /\ Len(statuses) \in {Len(lines), Len(lines) - 1}
        /\ Len(statuses) < Len(lines) => status_result = StatusErr
        /\ \A i \in 1..Len(statuses) :
            /\ statuses[i].tag = lines[i][1]
            /\ statuses[i].path = FieldGroup(lines[i])
            /\ statuses[i].orig_path =
                    IF lines[i][1] = RenameTag THEN Some(OriginalPath(lines[i])) ELSE None
        /\ status_result.kind = "Ok" =>
            /\ status_result.statuses = Some(statuses)
            /\ Len(statuses) = Len(lines)

\* A stream of a rename record and an ordinary record, each terminated,
\* was decoded into two entries: the first with its original path, the
\* second without.
C18_Witness ==
    /\ status_result.kind = "Ok"
    /\ Len(lines) = 2
    /\ lines[1] = <<RenameTag, OtherByte, NulByte, OtherByte>>
    /\ lines[2][1] \in {OrdinaryTag, UnmergedTag}
    /\ Terminated(lines) = output
    /\ status_result.statuses.val[1].orig_path = Some(<<OtherByte>>)
    /\ status_result.statuses.val[2].orig_path = None

\* C19: a record that starts with a byte other than '1', 'u' or '2' (a NUL
\* included) makes get_status fail: the iteration that peeks the byte
\* returns the error, an error returns no entries, not even those decoded
\* from earlier records, and no snapshot, and a call that returns entries
\* has met no such record.
C19_UnknownTagIsHardError ==
    /\ [](/\ status_result.kind = "Err" =>
                status_result.statuses = None /\ status_result.snapshot = None
          /\ status_result.kind = "Ok" =>
                \A i \in 1..Len(lines) : lines[i][1] \in StatusTags)
    /\ [][(/\ status_result = StatusRunning
           /\ status_bytes # <<>>
           /\ Head(status_bytes) \notin StatusTags) => status_result' = StatusErr]_vars

\* get_status failed at a record that starts with a NUL, after an earlier
\* record had been decoded into an entry.
C19_Witness ==
    /\ status_result.kind = "Err"
    /\ Len(statuses) >= 1 /\ Len(statuses) = Len(lines)
    /\ status_bytes # <<>> /\ Head(status_bytes) = NulByte
    /\ status_result.statuses = None /\ status_result.snapshot = None

----------------------------------------------------------------------------
\* The queries.

IsGetPaths == last.op = "get_paths_touched_by_commit"
IsContains == last.op = "contains_touched_path"
QueriedTree == get_tree(last.patch)
QueriedParentTree == get_tree(get_parents(last.patch)[1])

\* C23: get_paths_touched_by_commit returns, for a commit with no parents,
\* every path of the commit's tree; for a commit with exactly one parent,
\* exactly the paths whose entry (existence, content or mode) differs
\* between the parent's tree and the commit's, the empty set when the
\* trees are identical; for a commit with more parents, None.
C23_PathsTouchedByCommit ==
    IsGetPaths =>
        /\ ParentCount(last.patch) = 0 =>
            /\ last.outcome = "Some"
            /\ last.changed_paths = {p \in Paths : QueriedTree[p].some}
        /\ ParentCount(last.patch) = 1 =>
            /\ last.outcome = "Some"
            /\ last.changed_paths = {p \in Paths : QueriedParentTree[p] # QueriedTree[p]}
            /\ QueriedParentTree = QueriedTree => last.changed_paths = {}
        /\ ParentCount(last.patch) > 1 => last.outcome = "None"

\* The query of a one-parent commit that changed the content of one path
\* and left another path, which exists, alone: the set holds the first and
\* not the second.
C23_Witness ==
    /\ IsGetPaths /\ ParentCount(last.patch) = 1
    /\ last.outcome = "Some"
    /\ \E p \in last.changed_paths :
            /\ QueriedParentTree[p].some /\ QueriedTree[p].some
            /\ QueriedParentTree[p].val.oid # QueriedTree[p].val.oid
    /\ \E p \in Paths \ last.changed_paths : QueriedTree[p].some

\* C30: for a commit with exactly one parent, contains_touched_path(p)
\* returns Some(true) exactly when p is in the set that
\* get_paths_touched_by_commit returns for the commit (entry added,
\* removed, or changed in content or mode) and Some(false) otherwise; it
\* returns None exactly when the commit does not have exactly one parent.
C30_ContainsTouchedPathAgrees ==
    IsContains =>
        /\ last.outcome = "None" <=> ParentCount(last.patch) # 1
        /\ ParentCount(last.patch) = 1 =>
            /\ last.outcome \in {"Some(true)", "Some(false)"}
            /\ last.outcome = "Some(true)" <=>
                    last.options.val.path \in get_paths_touched_by_commit(last.patch).val

\* The query of a path of which a one-parent commit changed only the file
\* mode: get_paths_touched_by_commit holds the path, and
\* contains_touched_path returned Some(false).
C30_Witness ==
    /\ IsContains /\ ParentCount(last.patch) = 1
    /\ LET p == last.options.val.path
       IN /\ QueriedParentTree[p].some /\ QueriedTree[p].some
          /\ QueriedParentTree[p].val.oid = QueriedTree[p].val.oid
          /\ QueriedParentTree[p].val.file_mode # QueriedTree[p].val.file_mode
          /\ p \in get_paths_touched_by_commit(last.patch).val
    /\ last.outcome = "Some(false)"

----------------------------------------------------------------------------
\* Dehydration and hydration.

IsDehydrate == last.op = "dehydrate_commit"
IsHydrate == last.op = "hydrate_tree"
\* The commits a call wrote that were made from a given commit.
WrittenFrom(c) ==
    {w.object : w \in {v \in last.written :
                        v.kind = "commit" /\ v.object.message.original = c}}
\* A tree holds exactly the entries of a commit's tree at the paths given.
HoldsExactly(tree, c, paths) ==
    \A p \in Paths :
        /\ (p \in paths /\ get_tree(c)[p].some) => tree[p] = get_tree(c)[p]
        /\ (p \notin paths \/ ~get_tree(c)[p].some) => tree[p] = None

\* C24: for every commit and path set P, the tree of the commit that
\* dehydrate_commit produces has an entry at exactly the paths of P that
\* exist in the original commit's tree, each with the original's OID and
\* mode, and no entry at a path outside P; so has the chained parent.
C24_DehydratedTreeIsExactlyP ==
    IsDehydrate =>
        /\ HoldsExactly(last.tree.val, last.patch, last.changed_paths)
        /\ \A w \in last.written :
            w.kind = "commit" =>
                HoldsExactly(w.object.tree, w.object.message.original, last.changed_paths)

\* A commit dehydrated over a path set that holds a path of its tree and a
\* path its tree lacks, while its tree has a path outside the set.
C24_Witness ==
    /\ IsDehydrate
    /\ \E p \in last.changed_paths :
            get_tree(last.patch)[p].some /\ last.tree.val[p] = get_tree(last.patch)[p]
    /\ \E p \in Paths \ last.changed_paths :
            get_tree(last.patch)[p].some /\ last.tree.val[p] = None
    /\ \E w \in last.written : w.kind = "commit" /\ w.object.parents # <<>>

\* C25: hydrating a tree with an empty override map returns the tree, and
\* hydrating a tree T with the entries of dehydrate(T, P) as overrides
\* returns T, for every path set P.
C25_RoundTrip ==
    IsHydrate =>
        /\ last.tree.val = get_tree(last.patch)
        /\ DOMAIN last.entries.val = last.changed_paths
        /\ last.changed_paths = {} => hydrate_tree(get_tree(last.patch), <<>>) = last.tree.val

\* A round trip over a path set that holds a path of the tree while the
\* tree has another path outside the set.
C25_Witness ==
    /\ IsHydrate
    /\ \E p \in last.changed_paths :
            get_tree(last.patch)[p].some /\ last.entries.val[p] = get_tree(last.patch)[p]
    /\ \E p \in Paths \ last.changed_paths : get_tree(last.patch)[p].some
    /\ TreeObject(get_tree(last.patch)) \in odb

\* A dehydrated commit is chained one level: its only parent, if any, is
\* the parentless dehydrated copy of the original's sole parent over the
\* same paths.
ChainedOneLevel(dc, c, paths) ==
    /\ Len(dc.parents) = 1
    /\ dc.parents[1].parents = <<>>
    /\ dc.parents[1].message.original = get_only_parent(c).val
    /\ HoldsExactly(dc.parents[1].tree, get_only_parent(c).val, paths)

\* C27: dehydrate_commit with base_on_parent = true returns a commit with
\* exactly one parent, the parentless dehydrated copy of the original's
\* sole parent over the same paths, when the original has exactly one
\* parent, and a parentless commit otherwise; with base_on_parent = false
\* the result is parentless.  cherry_pick_fast dehydrates the patch
\* chained and the target unchained, and no dehydrated commit has a
\* grandparent.
C27_ChainingIsOneLevel ==
    /\ IsDehydrate =>
        /\ Cardinality(WrittenFrom(last.patch)) = 1
        /\ \A dc \in WrittenFrom(last.patch) :
            IF last.options.val.base_on_parent /\ ParentCount(last.patch) = 1
            THEN ChainedOneLevel(dc, last.patch, last.changed_paths)
            ELSE dc.parents = <<>>
    /\ (IsCherryPick /\ "dehydrate" \in last.steps) =>
        /\ \E dc \in WrittenFrom(last.patch) :
            IF ParentCount(last.patch) = 1
            THEN ChainedOneLevel(dc, last.patch, last.changed_paths)
            ELSE dc.parents = <<>>
        /\ \E dc \in WrittenFrom(last.target) : dc.parents = <<>>
        /\ Cardinality({w \in last.written : w.kind = "commit"}) <= 3
    /\ \A w \in odb :
        w.kind = "commit" =>
            \A i \in 1..Len(w.object.parents) : w.object.parents[i].parents = <<>>

\* The third commit of a line of three was dehydrated with chaining: the
\* result has one parent, made from the second commit, and that parent is
\* parentless although the second commit has a parent.
C27_Witness ==
    /\ IsDehydrate
    /\ last.options.val.base_on_parent
    /\ ParentCount(last.patch) = 1
    /\ ParentCount(get_only_parent(last.patch).val) = 1
    /\ \E dc \in WrittenFrom(last.patch) :
            /\ Len(dc.parents) = 1
            /\ dc.parents[1].parents = <<>>
            /\ dc.parents[1].message.original = get_only_parent(last.patch).val

----------------------------------------------------------------------------
\* The elision against the full path.

\* C29: for a patch commit with exactly one parent whose tree is the
\* target commit's tree, cherry_pick_fast returns the patch commit's own
\* tree with reuse_parent_tree_if_possible = false (dehydrate, merge,
\* hydrate) as with reuse_parent_tree_if_possible = true (elision), and
\* reports no conflict.
C29_ElisionIsARefinement ==
    (/\ IsCherryPick
     /\ ParentCount(last.patch) = 1
     /\ get_tree(get_only_parent(last.patch).val) = get_tree(last.target))
        => /\ ReturnedTree
           /\ last.tree.val = get_tree(last.patch)
           /\ Reuse <=> last.steps = {"reuse"}
           /\ ~Reuse <=> last.steps = {"paths", "dehydrate", "merge", "hydrate"}

\* Without the option, a patch that added one path and removed or changed
\* another was merged onto a commit with its parent's tree, and the
\* hydrated tree is the patch's own.
C29_Witness ==
    /\ IsCherryPick /\ ReturnedTree /\ ~Reuse
    /\ ParentCount(last.patch) = 1
    /\ get_tree(get_only_parent(last.patch).val) = get_tree(last.target)
    /\ "hydrate" \in last.steps
    /\ \E p \in last.changed_paths :
            get_tree(last.target)[p].some /\ get_tree(last.patch)[p] # get_tree(last.target)[p]
    /\ \E p \in last.changed_paths : ~get_tree(last.target)[p].some
    /\ last.tree.val = get_tree(last.patch)

----------------------------------------------------------------------------
\* Termination of the status decoder.

\* The NULs a record with the given tag is terminated by.
FieldGroups(tag) == IF tag = RenameTag THEN 2 ELSE 1

\* C28: the decoding loop terminates on every finite byte stream.  Each
\* iteration fails or consumes at least one byte, the tag byte and the
\* bytes up to and including the next NUL; the iterations are never more
\* than the bytes of the input; a last record without its terminating NUL,
\* and a '2' record without its second field, is consumed to the end of
\* the input; and the call returns at last.
C28_DecodingTerminates ==
    /\ [](StatusDecoding =>
            /\ iterations <= Len(output)
            /\ iterations <= Len(Consumed) + 1
            /\ iterations > Len(Consumed) => status_result = StatusErr)
    /\ [][iterations' # iterations =>
            /\ iterations' = iterations + 1
            /\ \/ status_result' = StatusErr
               \/ Len(status_bytes') < Len(status_bytes)
            /\ status_bytes' # status_bytes =>
                /\ status_bytes' = SubSeq(status_bytes,
                                          Len(status_bytes) - Len(status_bytes') + 1,
                                          Len(status_bytes))
                /\ NulCount(status_bytes) < FieldGroups(Head(status_bytes)) =>
                        status_bytes' = <<>>
                /\ NulCount(status_bytes) >= FieldGroups(Head(status_bytes)) =>
                        /\ status_bytes[Len(status_bytes) - Len(status_bytes')] = NulByte
                        /\ NulCount(SubSeq(status_bytes, 1,
                                           Len(status_bytes) - Len(status_bytes')))
                                = FieldGroups(Head(status_bytes))]_vars
    /\ <>(status_result.kind \in {"Ok", "Err"})

\* A stream whose last record, a '2' record, has its first terminator and
\* no second field was decoded to its end in as many iterations as it has
\* records, and the call returned.
C28_Witness ==
    /\ status_result.kind \in {"Ok", "Err"}
    /\ status_bytes = <<>>
    /\ Len(lines) = 2 /\ iterations = 2
    /\ lines[2][1] = RenameTag
    /\ output[Len(output)] = NulByte
    /\ NulCount(output) = 2

----------------------------------------------------------------------------
\* Sequences of calls and calls the store fails.

SameCall(a, b) ==
    /\ a.op = b.op
    /\ a.patch = b.patch
    /\ a.target = b.target
    /\ a.options = b.options

C26_StoreFailureIsAHardError ==
    failure # NoFailure =>
        /\ last.op \in {"cherry_pick_fast", "amend_fast"}
        /\ last.outcome = "error"
        /\ last.tree = None
        /\ last.conflicting_paths = {}
        /\ refs = [master |-> RefTarget(ChildCommit, FALSE)]
        /\ \A w \in last.written : w.kind = "commit" => w.object.update_ref = None

\* The store failed to find the tree cherry_pick_fast had just hydrated:
\* the dehydrated commits and the hydrated tree are in the store, and the
\* call returned an error.
C26_Witness ==
    /\ failure = "find_tree"
    /\ last.op = "cherry_pick_fast"
    /\ last.outcome = "error"
    /\ \E w \in last.written : w.kind = "commit"
    /\ \E w \in last.written :
            /\ w.kind = "tree"
            /\ w.object = rebased_tree_oid(last.target, last.entries.val)
    /\ last.written \subseteq odb

====
